---- MODULE Spec2Model ----
(***************************************************************************)
(* A model of the two scanners of the repository:                          *)
(*   src/main.py     CodeArchitectureAnalyzer (analyze_codebase and the    *)
(*                   extraction, complexity and insight code it calls)     *)
(*   src/mainOOP.py  ClassFinder.find_classes and GraphBuilder.build_graph *)
(*                                                                         *)
(* Python strings that the code concatenates or searches (identifiers,     *)
(* dotted names) are sequences of one-character strings, so that           *)
(* f"{value}.{attr}" and the test  'Checksum' in d  are computed.  The     *)
(* empty string is << >>.  Paths and log texts, which are only compared,   *)
(* are TLA+ strings.                                                       *)
(*                                                                         *)
(* An AST node is a record [kind, name, lineno, body, decorator_list]:     *)
(* kind is the ast class name, name is .name/.id/.attr, body holds the     *)
(* child nodes of every field other than decorator_list, in field order.   *)
(* Not modelled: arguments, return annotations, base classes, line totals. *)
(***************************************************************************)
EXTENDS Naturals, Sequences, FiniteSets

VARIABLES
    files,           \* the list of files the scan iterates over (contents)
    idx,             \* number of files the for-loop has consumed
    pc,              \* position of the running program
    todo,            \* the deque of ast.walk inside _analyze_file
    classes,         \* self.classes (main.py) / classes (mainOOP.py)
    functions,       \* self.functions
    decorators,      \* self.decorators
    imports,         \* self.imports
    insights,        \* self.insights
    files_analyzed,  \* the local counter of analyze_codebase
    log,             \* the lines printed so far
    graph,           \* the nx.DiGraph that build_graph returns
    shape,           \* a function's subtree, flat: node i has parent shape[i].parent
    complexity       \* the value _calculate_complexity returned for shape

vars == <<files, idx, pc, todo, classes, functions, decorators, imports,
          insights, files_analyzed, log, graph, shape, complexity>>

-----------------------------------------------------------------------------
(* Bounds *)

MaxFiles == 3

-----------------------------------------------------------------------------
(* Generic helpers *)

EmptyMap == [k \in {} |-> 0]

\* d.setdefault(k, v): the first value stored under a key stays
PutIfAbsent(d, k, v) == [x \in (DOMAIN d) \cup {k} |-> IF x \in DOMAIN d THEN d[x] ELSE v]

Put(d, k, v) == [x \in (DOMAIN d) \cup {k} |-> IF x = k THEN v ELSE d[x]]

\* defaultdict(list)[k].append(v)
AppendTo(d, k, v) ==
    Put(d, k, (IF k \in DOMAIN d THEN d[k] ELSE << >>) \o <<v>>)

Range(s) == {s[i] : i \in 1..Len(s)}

\* Python's  sub in s  on strings
Contains(s, sub) ==
    \E i \in 0..(Len(s) - Len(sub)) :
        Len(s) >= Len(sub) /\ \A j \in 1..Len(sub) : s[i + j] = sub[j]

\* bool(d) of a dict: empty is falsy
Truthy(d) == DOMAIN d # {}

\* every ordering of a finite set: list(set(...)) has an unspecified order
Orderings(S) ==
    {s \in [1..Cardinality(S) -> S] : \A i, j \in 1..Cardinality(S) : i # j => s[i] # s[j]}

-----------------------------------------------------------------------------
(* AST nodes *)

Node(kind, name, lineno, body, decos) ==
    [kind |-> kind, name |-> name, lineno |-> lineno, body |-> body,
     decorator_list |-> decos]

Name(id) == Node("Name", id, 0, << >>, << >>)
Call(func) == Node("Call", << >>, 0, <<func>>, << >>)
Attribute(value, attr) == Node("Attribute", attr, 0, <<value>>, << >>)
Subscript(value) == Node("Subscript", << >>, 0, <<value>>, << >>)
Stmt(kind, body) == Node(kind, << >>, 0, body, << >>)
Leaf(kind) == Node(kind, << >>, 0, << >>, << >>)
FunctionDef(name, lineno, decos, body) == Node("FunctionDef", name, lineno, body, decos)
AsyncFunctionDef(name, lineno, decos, body) ==
    Node("AsyncFunctionDef", name, lineno, body, decos)
ClassDef(name, lineno, decos, body) == Node("ClassDef", name, lineno, body, decos)
Alias(name) == Node("alias", name, 0, << >>, << >>)
Import(names) == Node("Import", << >>, 0, names, << >>)
ImportFrom(module, names) == Node("ImportFrom", module, 0, names, << >>)
Module(body) == Node("Module", << >>, 0, body, << >>)

\* ast.iter_child_nodes: the fields in _fields order; body comes before
\* decorator_list in ClassDef and FunctionDef
iter_child_nodes(node) == node.body \o node.decorator_list

\* the children of the nodes of one level of the tree, in order
RECURSIVE ChildNodes(_)
ChildNodes(level) ==
    IF level = << >> THEN << >>
    ELSE iter_child_nodes(Head(level)) \o ChildNodes(Tail(level))

\* ast.walk: breadth-first.  The deque is extended with the children of the
\* node popped from its left, so the nodes come out level by level, each
\* level in the order of the parents: the deque's nodes, then their children
RECURSIVE walk(_)
walk(deque) ==
    IF deque = << >> THEN << >>
    ELSE deque \o walk(ChildNodes(deque))

-----------------------------------------------------------------------------
(* Name resolution: src/main.py 248-267 *)

Dot == <<".">>

RECURSIVE _get_name(_)
_get_name(node) ==
    CASE node.kind = "Name" -> node.name
      [] node.kind = "Attribute" ->
            LET value == _get_name(node.body[1])
            IN  IF value # << >> THEN value \o Dot \o node.name ELSE node.name
      [] node.kind = "Call" -> _get_name(node.body[1])
      [] OTHER -> << >>

\* str(node) of an ast node is "<ast.Subscript object at 0x...>": a non-empty
\* string that is no identifier; the address is left out
PyStr(node) == <<"<", "a", "s", "t", ".", node.kind, " ", "o", "b", "j", "e", "c", "t", ">">>

_get_decorator_name(decorator) ==
    CASE decorator.kind = "Name" -> decorator.name
      [] decorator.kind = "Call" -> _get_name(decorator.body[1])
      [] decorator.kind = "Attribute" -> _get_name(decorator)
      [] OTHER -> PyStr(decorator)

DecoratorNames(node) ==
    [i \in 1..Len(node.decorator_list) |-> _get_decorator_name(node.decorator_list[i])]

-----------------------------------------------------------------------------
(* Complexity: src/main.py 234-246 *)

BranchKinds == {"If", "While", "For", "AsyncFor"}
HandlerKinds == {"ExceptHandler"}
BoolOpKinds == {"And", "Or"}

\* Increment without the elif for exception handlers
IncrementNoHandler(child) ==
    IF child.kind \in BranchKinds THEN 1
    ELSE IF child.kind \in BoolOpKinds THEN 1
    ELSE 0

\* what one iteration of the loop adds: the if/elif/elif of lines 239-244
Increment(child) ==
    IF child.kind \in BranchKinds THEN 1
    ELSE IF child.kind \in HandlerKinds THEN 1
    ELSE IF child.kind \in BoolOpKinds THEN 1
    ELSE 0

RECURSIVE ComplexityLoop(_, _)
ComplexityLoop(acc, nodes) ==
    IF nodes = << >> THEN acc
    ELSE ComplexityLoop(acc + Increment(Head(nodes)), Tail(nodes))

_calculate_complexity(node) == ComplexityLoop(1, walk(<<node>>))

-----------------------------------------------------------------------------
(* Identifiers of the scanned sources, as character sequences *)

s_Foo == <<"F", "o", "o">>
s_bar == <<"b", "a", "r">>
s_baz == <<"b", "a", "z">>
s_big == <<"b", "i", "g">>
s_huge == <<"h", "u", "g", "e">>
s_edge == <<"e", "d", "g", "e">>
s_f == <<"f">>
s_g == <<"g">>
s_h == <<"h">>
s_m == <<"m">>
s_am == <<"a", "m">>
s_inner == <<"i", "n", "n", "e", "r">>
s_w == <<"w">>
s_K == <<"K">>
s_A == <<"A">>
s_B == <<"B">>
s_Inner == <<"I", "n", "n", "e", "r">>
s_x == <<"x">>
s_y == <<"y">>
s_z == <<"z">>
s_a == <<"a">>
s_b == <<"b">>
s_self == <<"s", "e", "l", "f">>
s_ChecksumA == <<"C", "h", "e", "c", "k", "s", "u", "m", "A">>
s_ChecksumB == <<"C", "h", "e", "c", "k", "s", "u", "m", "B">>
s_checksum_c == <<"c", "h", "e", "c", "k", "s", "u", "m", "_", "c">>
s_MyChecksum == <<"M", "y", "C", "h", "e", "c", "k", "s", "u", "m">>
s_cache == <<"c", "a", "c", "h", "e">>
s_pkg == <<"p", "k", "g">>
s_util == <<"u", "t", "i", "l">>
s_handlers == <<"h", "a", "n", "d", "l", "e", "r", "s">>
s_os == <<"o", "s">>
s_Checksum == <<"C", "h", "e", "c", "k", "s", "u", "m">>

-----------------------------------------------------------------------------
(* Extraction: src/main.py 174-232 *)

Paths == <<"a.py", "b.py", "c.py", "d.py", "e.py">>

\* FunctionInfo(name, decorators, line, file_path, complexity)
FunctionInfo(item, file_path) ==
    [name |-> item.name,
     decorators |-> DecoratorNames(item),
     line |-> item.lineno,
     file_path |-> file_path,
     complexity |-> _calculate_complexity(item)]

\* ClassMethods over ast.walk(node) instead of node.body
ClassMethodsWalked(node, file_path) ==
    LET items == SelectSeq(walk(<<node>>), LAMBDA item : item.kind = "FunctionDef")
    IN  [i \in 1..Len(items) |-> FunctionInfo(items[i], file_path)]

\* the methods list of _analyze_class: the FunctionDef items of node.body
ClassMethods(node, file_path) ==
    LET items == SelectSeq(node.body, LAMBDA item : item.kind = "FunctionDef")
    IN  [i \in 1..Len(items) |-> FunctionInfo(items[i], file_path)]

ClassInfo(node, file_path) ==
    [name |-> node.name,
     methods |-> ClassMethods(node, file_path),
     decorators |-> DecoratorNames(node),
     line |-> node.lineno,
     file_path |-> file_path]

\* self.classes after _analyze_class(node, file_path)
_analyze_class(cls, node, file_path) == Put(cls, node.name, ClassInfo(node, file_path))

\* self.functions after _analyze_function(node, file_path)
RecordFunction(fns, node, file_path) == Put(fns, node.name, FunctionInfo(node, file_path))

\* whether the loop over func_info.decorators records this entry
Tracked(decorator) == decorator # << >>

RECURSIVE TrackDecorators(_, _, _, _)
TrackDecorators(decs, names, node, file_path) ==
    IF names = << >> THEN decs
    ELSE TrackDecorators(
            IF Tracked(Head(names))
            THEN AppendTo(decs, Head(names),
                          [function |-> node.name, file |-> file_path, line |-> node.lineno])
            ELSE decs,
            Tail(names), node, file_path)

\* self.decorators after _analyze_function(node, file_path)
TrackFunction(decs, node, file_path) ==
    TrackDecorators(decs, DecoratorNames(node), node, file_path)

ImportKey(node, alias) ==
    IF node.kind = "Import" THEN alias.name ELSE node.name \o Dot \o alias.name

RECURSIVE ImportLoop(_, _, _, _)
ImportLoop(imps, node, names, file_path) ==
    IF names = << >> THEN imps
    ELSE ImportLoop(AppendTo(imps, ImportKey(node, Head(names)), file_path),
                    node, Tail(names), file_path)

\* self.imports after _analyze_import(node, file_path)
_analyze_import(imps, node, file_path) == ImportLoop(imps, node, node.body, file_path)

-----------------------------------------------------------------------------
(* Insights: src/main.py 269-310 *)

ComplexityThreshold == 10

\* HighComplexityFuncs with >= for >
HighComplexityFuncsAtLeast(fns) ==
    {n \in DOMAIN fns : fns[n].complexity >= ComplexityThreshold}

HighComplexityFuncs(fns) == {n \in DOMAIN fns : fns[n].complexity > ComplexityThreshold}

\* set(func.file_path for func in high_complexity_funcs)
AffectedFiles(fns) == {fns[n].file_path : n \in HighComplexityFuncs(fns)}

\* the list(...) of that set, in any order
AffectedLists(fns) == Orderings(AffectedFiles(fns))

DecoratorUsage(decs) == {d \in DOMAIN decs : Len(decs[d]) > 1}

\* ChecksumDecorators over decorator_usage instead of self.decorators
ChecksumDecoratorsReused(decs) ==
    {d \in DOMAIN decs : Len(decs[d]) > 1 /\ Contains(d, s_Checksum)}

ChecksumDecorators(decs) == {d \in DOMAIN decs : Contains(d, s_Checksum)}

WarningInsight(fns, affected) ==
    [type |-> "warning", title |-> "High Complexity Functions Detected",
     count |-> Cardinality(HighComplexityFuncs(fns)),
     files_affected |-> affected, severity |-> "medium"]

InfoInsight(decs) ==
    [type |-> "info", title |-> "Decorator Patterns Found",
     count |-> Cardinality(DecoratorUsage(decs)),
     files_affected |-> << >>, severity |-> "low"]

RecommendationInsight ==
    [type |-> "recommendation", title |-> "Multiple Checksum Decorator Implementations",
     count |-> 0, files_affected |-> << >>, severity |-> "medium"]

WarningRule(fns, affected) ==
    IF HighComplexityFuncs(fns) # {} THEN <<WarningInsight(fns, affected)>> ELSE << >>

InfoRule(decs) ==
    IF DecoratorUsage(decs) # {} THEN <<InfoInsight(decs)>> ELSE << >>

RecommendationRule(decs) ==
    IF Cardinality(ChecksumDecorators(decs)) > 1 THEN <<RecommendationInsight>> ELSE << >>

\* _generate_insights with the last two blocks exchanged
_generate_insights_reordered(ins, fns, decs, affected) ==
    ins \o WarningRule(fns, affected) \o RecommendationRule(decs) \o InfoRule(decs)

\* self.insights after _generate_insights(); affected is the order list(set) took
_generate_insights(ins, fns, decs, affected) ==
    ins \o WarningRule(fns, affected) \o InfoRule(decs) \o RecommendationRule(decs)

-----------------------------------------------------------------------------
(* The files a scan may meet.  status is what open/read/ast.parse does with   *)
(* the file: "ok", or the exception raised; a file that does not parse has no *)
(* tree.                                                                      *)

Pass == Leaf("Pass")
Const == Leaf("Constant")
IfStmt(body) == Stmt("If", <<Const>> \o body)
BoolOp(op, values) == Stmt("BoolOp", <<Leaf(op)>> \o values)
Try(body, handlers) == Stmt("Try", body \o handlers)
ExceptHandler(body) == Stmt("ExceptHandler", body)
Assign(target) == Stmt("Assign", <<target, Const>>)
Tuple(elts) == Stmt("Tuple", elts)

Source(tree) == [status |-> "ok", tree |-> tree]
Broken(exception) == [status |-> exception, tree |-> Module(<< >>)]

\* class Foo:
\*     def bar(self): pass
\* def baz():
\*     if True: pass
Plain ==
    Source(Module(<<
        ClassDef(s_Foo, 1, << >>, <<FunctionDef(s_bar, 2, << >>, <<Pass>>)>>),
        FunctionDef(s_baz, 3, << >>, <<IfStmt(<<Pass>>)>>) >>))

\* ten counted nodes:
\*     if a and b:
\*         while a or b:
\*             for ..:
\*                 async for ..:
\*                     try: pass
\*                     except:
\*                         if ..: ..
\*                         if ..: ..
\*                         if ..: ..
TenBranches ==
    <<Stmt("If", <<BoolOp("And", <<Name(s_a), Name(s_b)>>),
        Stmt("While", <<BoolOp("Or", <<Name(s_a), Name(s_b)>>),
            Stmt("For", <<
                Stmt("AsyncFor", <<
                    Try(<<Pass>>, <<ExceptHandler(<<
                        IfStmt(<< >>), IfStmt(<< >>), IfStmt(<< >>) >>)>>) >>) >>) >>) >>)>>

\* @cache
\* @ChecksumB
\* def big(): <ten counted nodes>          complexity 11
\* def huge(): <ten counted nodes>         complexity 11
Hot ==
    Source(Module(<<
        FunctionDef(s_big, 3, <<Name(s_cache), Name(s_ChecksumB)>>, TenBranches),
        FunctionDef(s_huge, 14, << >>, TenBranches) >>))

\* @cache
\* def edge():                      nine counted nodes: complexity 10
\*     if ..: (x 9)
\* @cache
\* @ChecksumA
\* def big(): pass                  complexity 1
Warm ==
    Source(Module(<<
        FunctionDef(s_edge, 2, <<Name(s_cache)>>, <<
            IfStmt(<< >>), IfStmt(<< >>), IfStmt(<< >>), IfStmt(<< >>), IfStmt(<< >>),
            IfStmt(<< >>), IfStmt(<< >>), IfStmt(<< >>), IfStmt(<< >>) >>),
        FunctionDef(s_big, 13, <<Name(s_cache), Name(s_ChecksumA)>>, <<Pass>>) >>))

\* @ChecksumA
\* def f(): pass
\* @handlers[0]
\* def g(): pass
\* @ChecksumB
\* class K:
\*     @checksum_c
\*     def m(self):
\*         def inner(): pass
\*     @MyChecksum
\*     async def am(self): pass
DecoA ==
    Source(Module(<<
        FunctionDef(s_f, 2, <<Name(s_ChecksumA)>>, <<Pass>>),
        FunctionDef(s_g, 4, <<Subscript(Name(s_handlers))>>, <<Pass>>),
        ClassDef(s_K, 6, <<Name(s_ChecksumB)>>, <<
            FunctionDef(s_m, 8, <<Name(s_checksum_c)>>, <<
                FunctionDef(s_inner, 9, << >>, <<Pass>>) >>),
            AsyncFunctionDef(s_am, 11, <<Name(s_MyChecksum)>>, <<Pass>>) >>) >>))

\* @ChecksumB()
\* def h(): pass
\* class K:
\*     x = 1
\*     @pkg.util
\*     def m(self): pass
\*     @handlers[0]()
\*     def g(self): pass
\* def m(): pass
DecoB ==
    Source(Module(<<
        FunctionDef(s_h, 2, <<Call(Name(s_ChecksumB))>>, <<Pass>>),
        ClassDef(s_K, 3, << >>, <<
            Assign(Name(s_x)),
            FunctionDef(s_m, 6, <<Attribute(Name(s_pkg), s_util)>>, <<Pass>>),
            FunctionDef(s_g, 8, <<Call(Subscript(Name(s_handlers)))>>, <<Pass>>) >>),
        FunctionDef(s_m, 10, << >>, <<Pass>>) >>))

\* import os
\* from pkg import util, ChecksumA
\* from . import x
\* @pkg.ChecksumA
\* @handlers[0].bar
\* def w(): <ten counted nodes>            complexity 11
Imports ==
    Source(Module(<<
        Import(<<Alias(s_os)>>),
        ImportFrom(s_pkg, <<Alias(s_util), Alias(s_ChecksumA)>>),
        ImportFrom(<< >>, <<Alias(s_x)>>),
        FunctionDef(s_w, 6, <<Attribute(Name(s_pkg), s_ChecksumA),
                               Attribute(Subscript(Name(s_handlers)), s_bar)>>, TenBranches) >>))

\* class A:
\*     x = 1
\*     (a, b) = ..
\*     pkg.z = ..
\*     B = ..
\*     def m(self):
\*         self.y = ..
\*         z = ..
\*     class Inner:
\*         w = ..
\*         def m(self): pass
\* class B: pass
\* class Foo: pass
Attrs ==
    Source(Module(<<
        ClassDef(s_A, 1, << >>, <<
            Assign(Name(s_x)),
            Assign(Tuple(<<Name(s_a), Name(s_b)>>)),
            Assign(Attribute(Name(s_pkg), s_z)),
            Assign(Name(s_B)),
            FunctionDef(s_m, 6, << >>, <<
                Assign(Attribute(Name(s_self), s_y)),
                Assign(Name(s_z)) >>),
            ClassDef(s_Inner, 9, << >>, <<
                Assign(Name(s_w)),
                FunctionDef(s_m, 11, << >>, <<Pass>>) >>) >>),
        ClassDef(s_B, 12, << >>, <<Pass>>),
        ClassDef(s_Foo, 13, << >>, <<Pass>>) >>))

BadSyntax == Broken("SyntaxError")
BadDecode == Broken("UnicodeDecodeError")
Unreadable == Broken("OSError")

ParseErrors == {"SyntaxError", "UnicodeDecodeError"}

Contents ==
    {Plain, Hot, Warm, DecoA, DecoB, Imports, Attrs, BadSyntax, BadDecode, Unreadable}

FileLists == UNION {[1..n -> Contents] : n \in 0..MaxFiles}

-----------------------------------------------------------------------------
(* CodeArchitectureAnalyzer.analyze_codebase: src/main.py 75-172 *)

py_file == Paths[idx + 1]
content == files[idx + 1]

\* the dict _analyze_file returns from its except clause (line 152)
ErrorInfo(e) == [error |-> e, lines |-> 0]

\* the dict _analyze_file returns after the walk (lines 154-161)
FileInfo(path) == [path |-> path, classes |-> << >>, functions |-> << >>,
                   imports |-> << >>, complexity |-> 0]

\* lines 91-93: if file_info: files_analyzed += 1
CountFile(n, file_info) == IF Truthy(file_info) THEN n + 1 ELSE n

ErrorLine(path) == [text |-> "Error analyzing", path |-> path]
CompleteLine == [text |-> "Analysis complete", path |-> ""]

Idle == /\ graph = [nodes |-> {}, edges |-> {}]
        /\ shape = << >>
        /\ complexity = 0

Init ==
    /\ files \in FileLists
    /\ idx = 0
    /\ pc = "scan"
    /\ todo = << >>
    /\ classes = EmptyMap
    /\ functions = EmptyMap
    /\ decorators = EmptyMap
    /\ imports = EmptyMap
    /\ insights = << >>
    /\ files_analyzed = 0
    /\ log = << >>
    /\ Idle

\* open() raises: the exception leaves _analyze_file and is caught at line 95
OpenRaises ==
    /\ pc = "scan" /\ idx < Len(files)
    /\ content.status \notin ParseErrors \cup {"ok"}
    /\ log' = Append(log, ErrorLine(py_file))
    /\ idx' = idx + 1
    /\ UNCHANGED <<files, pc, todo, classes, functions, decorators, imports,
                   insights, files_analyzed, graph, shape, complexity>>

\* f.read() or ast.parse raises SyntaxError/UnicodeDecodeError: _analyze_file
\* returns the error dict and analyze_codebase tests it
ParseRaises ==
    /\ pc = "scan" /\ idx < Len(files)
    /\ content.status \in ParseErrors
    /\ files_analyzed' = CountFile(files_analyzed, ErrorInfo(content.status))
    /\ idx' = idx + 1
    /\ UNCHANGED <<files, pc, todo, classes, functions, decorators, imports,
                   insights, log, graph, shape, complexity>>

\* the file parses: ast.walk(tree) starts with the tree in its deque
ParseOk ==
    /\ pc = "scan" /\ idx < Len(files)
    /\ content.status = "ok"
    /\ todo' = <<content.tree>>
    /\ pc' = "walk"
    /\ UNCHANGED <<files, idx, classes, functions, decorators, imports,
                   insights, files_analyzed, log, graph, shape, complexity>>

\* one iteration of  for node in ast.walk(tree)  (lines 164-170)
VisitNode ==
    /\ pc = "walk" /\ todo # << >>
    /\ LET node == Head(todo) IN
        /\ todo' = Tail(todo) \o iter_child_nodes(node)
        /\ classes' = IF node.kind = "ClassDef"
                      THEN _analyze_class(classes, node, py_file) ELSE classes
        /\ functions' = IF node.kind = "FunctionDef"
                        THEN RecordFunction(functions, node, py_file) ELSE functions
        /\ decorators' = IF node.kind = "FunctionDef"
                         THEN TrackFunction(decorators, node, py_file) ELSE decorators
        /\ imports' = IF node.kind \in {"Import", "ImportFrom"}
                      THEN _analyze_import(imports, node, py_file) ELSE imports
    /\ UNCHANGED <<files, idx, pc, insights, files_analyzed, log, graph, shape, complexity>>

\* the walk is over: _analyze_file returns file_info, the caller counts it
ReturnFileInfo ==
    /\ pc = "walk" /\ todo = << >>
    /\ files_analyzed' = CountFile(files_analyzed, FileInfo(py_file))
    /\ idx' = idx + 1
    /\ pc' = "scan"
    /\ UNCHANGED <<files, todo, classes, functions, decorators, imports,
                   insights, log, graph, shape, complexity>>

\* after the loop: _generate_insights, the result and the final print
Finish ==
    /\ pc = "scan" /\ idx = Len(files)
    /\ \E affected \in AffectedLists(functions) :
          insights' = _generate_insights(insights, functions, decorators, affected)
    /\ log' = Append(log, CompleteLine)
    /\ pc' = "done"
    /\ UNCHANGED <<files, idx, todo, classes, functions, decorators, imports,
                   files_analyzed, graph, shape, complexity>>

Next == OpenRaises \/ ParseRaises \/ ParseOk \/ VisitNode \/ ReturnFileInfo \/ Finish

Spec == Init /\ [][Next]_vars

-----------------------------------------------------------------------------
(* ClassFinder.find_classes and GraphBuilder.build_graph: src/mainOOP.py *)

\* lines 29-31: the names appended to classes[class_name]["methods"], in the
\* order ast.walk(node) meets the FunctionDef nodes
MethodNames(node) ==
    LET found == SelectSeq(walk(<<node>>), LAMBDA method_node : method_node.kind = "FunctionDef")
    IN  [i \in 1..Len(found) |-> found[i].name]

\* lines 32-35: the names appended to classes[class_name]["attributes"]: the
\* first target of each Assign node that ast.walk(node) meets, if it is a Name
AttributeNames(node) ==
    LET found == SelectSeq(walk(<<node>>),
                           LAMBDA method_node : /\ method_node.kind = "Assign"
                                                /\ method_node.body[1].kind = "Name")
    IN  [i \in 1..Len(found) |-> found[i].body[1].name]

\* lines 24-35: the entry of one ClassDef node
ClassEntry(node) == [methods |-> MethodNames(node), attributes |-> AttributeNames(node)]

\* lines 21-22: the nodes of ast.walk(tree) that pass the isinstance test
ClassNodes(tree) == SelectSeq(walk(<<tree>>), LAMBDA node : node.kind = "ClassDef")

\* lines 23-35: the loop body, for each of them in walk order
RECURSIVE FindLoop(_, _)
FindLoop(cls, nodes) ==
    IF nodes = << >> THEN cls
    ELSE FindLoop(Put(cls, Head(nodes).name, ClassEntry(Head(nodes))), Tail(nodes))

FindInTree(cls, tree) == FindLoop(cls, ClassNodes(tree))

SyntaxLine(path) == [text |-> "Syntax error in", path |-> path]

EmptyGraph == [nodes |-> {}, edges |-> {}]
add_node(g, n) == [nodes |-> g.nodes \cup {n}, edges |-> g.edges]
add_edge(g, u, v) == [nodes |-> g.nodes \cup {u, v}, edges |-> g.edges \cup {<<u, v>>}]

\* lines 44-45
RECURSIVE AddClassNodes(_, _)
AddClassNodes(g, names) ==
    IF names = {} THEN g
    ELSE LET class_name == CHOOSE n \in names : TRUE
         IN  AddClassNodes(add_node(g, class_name), names \ {class_name})

RECURSIVE AddEdges(_, _, _)
AddEdges(g, class_name, members) ==
    IF members = << >> THEN g
    ELSE AddEdges(add_edge(g, class_name, Head(members)), class_name, Tail(members))

\* lines 48-52: the edges of one class, methods first
AddMemberEdges(g, class_name, data) ==
    AddEdges(AddEdges(g, class_name, data.methods), class_name, data.attributes)

\* lines 47-52
RECURSIVE AddClassEdges(_, _, _)
AddClassEdges(g, cls, names) ==
    IF names = {} THEN g
    ELSE LET class_name == CHOOSE n \in names : TRUE
         IN  AddClassEdges(AddMemberEdges(g, class_name, cls[class_name]),
                           cls, names \ {class_name})

\* build_graph without the add_node loop of lines 44-45
build_graph_edges_only(cls) == AddClassEdges(EmptyGraph, cls, DOMAIN cls)

build_graph(cls) ==
    AddClassEdges(AddClassNodes(EmptyGraph, DOMAIN cls), cls, DOMAIN cls)

InitOOP ==
    /\ files \in FileLists
    /\ idx = 0
    /\ pc = "find"
    /\ classes = EmptyMap
    /\ log = << >>
    /\ graph = EmptyGraph
    /\ todo = << >> /\ functions = EmptyMap /\ decorators = EmptyMap
    /\ imports = EmptyMap /\ insights = << >> /\ files_analyzed = 0
    /\ shape = << >> /\ complexity = 0

OOPUnused == <<todo, functions, decorators, imports, insights, files_analyzed,
               shape, complexity>>

\* line 15: open() raises outside the try statement
FindOpenRaises ==
    /\ pc = "find" /\ idx < Len(files)
    /\ content.status \notin ParseErrors \cup {"ok"}
    /\ pc' = "raised"
    /\ UNCHANGED <<files, idx, classes, log, graph, OOPUnused>>

\* line 17: source.read() raises UnicodeDecodeError, which  except SyntaxError
\* does not catch: the exception leaves find_classes
FindReadRaises ==
    /\ pc = "find" /\ idx < Len(files)
    /\ content.status = "UnicodeDecodeError"
    /\ pc' = "raised"
    /\ UNCHANGED <<files, idx, classes, log, graph, OOPUnused>>

\* lines 18-20
FindSyntaxError ==
    /\ pc = "find" /\ idx < Len(files)
    /\ content.status = "SyntaxError"
    /\ log' = Append(log, SyntaxLine(py_file))
    /\ idx' = idx + 1
    /\ UNCHANGED <<files, pc, classes, graph, OOPUnused>>

\* lines 21-35
FindInFile ==
    /\ pc = "find" /\ idx < Len(files)
    /\ content.status = "ok"
    /\ classes' = FindInTree(classes, content.tree)
    /\ idx' = idx + 1
    /\ UNCHANGED <<files, pc, log, graph, OOPUnused>>

\* DocumentationGenerator.generate, lines 105-106
BuildGraph ==
    /\ pc = "find" /\ idx = Len(files)
    /\ graph' = build_graph(classes)
    /\ pc' = "done"
    /\ UNCHANGED <<files, idx, classes, log, OOPUnused>>

NextOOP == FindOpenRaises \/ FindReadRaises \/ FindSyntaxError \/ FindInFile \/ BuildGraph

SpecOOP == InitOOP /\ [][NextOOP]_vars

-----------------------------------------------------------------------------
(* _calculate_complexity on every function subtree of up to MaxNodes nodes.   *)
(* The subtree is built node by node: shape[1] is the FunctionDef, shape[i]   *)
(* is a node of kind shape[i].kind whose parent is node shape[i].parent.      *)

MaxNodes == 4

Compound == {"FunctionDef", "If", "While", "For", "AsyncFor", "ExceptHandler"}

\* the node kinds Python's grammar puts below a node of each kind
ChildKinds(kind) ==
    IF kind \in Compound
    THEN {"If", "While", "For", "AsyncFor", "Try", "Pass", "FunctionDef", "BoolOp"}
    ELSE IF kind = "Try" THEN {"Pass", "If", "ExceptHandler"}
    ELSE IF kind = "BoolOp" THEN {"And", "Or", "Name", "BoolOp"}
    ELSE {}

\* the children of node i, in source order
Kids(sh, i) == SelectSeq([j \in 1..Len(sh) |-> j], LAMBDA j : sh[j].parent = i)

\* the ast node that the flat shape describes
RECURSIVE Nest(_, _)
Nest(sh, i) ==
    LET kids == Kids(sh, i)
    IN  Stmt(sh[i].kind, [k \in 1..Len(kids) |-> Nest(sh, kids[k])])

InitComplexity ==
    /\ shape = <<[kind |-> "FunctionDef", parent |-> 0]>>
    /\ complexity = 0
    /\ pc = "build"
    /\ files = << >> /\ idx = 0 /\ todo = << >>
    /\ classes = EmptyMap /\ functions = EmptyMap /\ decorators = EmptyMap
    /\ imports = EmptyMap /\ insights = << >> /\ files_analyzed = 0
    /\ log = << >> /\ graph = EmptyGraph

ComplexityUnused == <<files, idx, todo, classes, functions, decorators, imports,
                      insights, files_analyzed, log, graph>>

\* one more node in the function's source
AddNode ==
    /\ pc = "build" /\ Len(shape) < MaxNodes
    /\ \E parent \in 1..Len(shape) :
       \E kind \in ChildKinds(shape[parent].kind) :
          shape' = Append(shape, [kind |-> kind, parent |-> parent])
    /\ UNCHANGED <<pc, complexity, ComplexityUnused>>

\* the call _calculate_complexity(node) of lines 186 and 210
Measure ==
    /\ pc = "build"
    /\ complexity' = _calculate_complexity(Nest(shape, 1))
    /\ pc' = "measured"
    /\ UNCHANGED <<shape, ComplexityUnused>>

NextComplexity == AddNode \/ Measure

SpecComplexity == InitComplexity /\ [][NextComplexity]_vars

-----------------------------------------------------------------------------
(* Claims *)

Parsed == {i \in 1..Len(files) : files[i].status = "ok"}
Failed == {i \in 1..Len(files) : files[i].status \in ParseErrors}

\* C1: after analyze_codebase, files_analyzed equals the number of files that
\* parsed successfully; a file that raises a syntax or decode error is not counted.
C1_CountsOnlyParsedFiles ==
    pc = "done" => files_analyzed = Cardinality(Parsed)

\* C2: for every file whose analysis fails with a syntax or decode error, the
\* run has printed a line that names that file's path.
C2_EveryFailureIsLogged ==
    pc = "done" =>
        \A i \in Failed : \E k \in 1..Len(log) : log[k].path = Paths[i]

\* C3: a single bad file never aborts the scan: whatever malformed or
\* undecodable file the list holds, no exception leaves the scan, every file
\* of the list is processed and the run reaches its final result (here for
\* ClassFinder.find_classes).
C3_BadFileNeverAborts ==
    /\ pc # "raised"
    /\ pc = "done" => idx = Len(files)

IdentChars ==
    {"a", "b", "c", "d", "e", "f", "g", "h", "i", "j", "k", "l", "m", "n", "o", "p",
     "q", "r", "s", "t", "u", "v", "w", "x", "y", "z", "A", "B", "C", "D", "E", "F",
     "G", "H", "I", "J", "K", "L", "M", "N", "O", "P", "Q", "R", "S", "T", "U", "V",
     "W", "X", "Y", "Z", "0", "1", "2", "3", "4", "5", "6", "7", "8", "9", "_", "."}

IsDottedName(str) == str # << >> /\ \A i \in 1..Len(str) : str[i] \in IdentChars

\* C9: decorator-name resolution yields a (dotted) name or the empty string,
\* and a decorator that does not resolve to a name is never inserted in the
\* DecoratorUsageIndex: every recorded decorator entry is a name or empty, and
\* every key of the index is a non-blank name.
C9_IndexHoldsOnlyNames ==
    /\ \A fn \in DOMAIN functions : \A i \in 1..Len(functions[fn].decorators) :
          functions[fn].decorators[i] = << >> \/ IsDottedName(functions[fn].decorators[i])
    /\ \A d \in DOMAIN decorators : IsDottedName(d)

Counted == {"If", "While", "For", "AsyncFor", "ExceptHandler", "And", "Or"}

CountedNodes == {i \in 1..Len(shape) : shape[i].kind \in Counted}

\* C4: for every function, the complexity computed is exactly 1 + k, where k
\* is the number of if/while/for/async-for, exception-handler and AND/OR
\* nodes of the function's subtree; so it is at least 1, and 1 when k = 0.
C4_ComplexityIsOnePlusCounted ==
    pc = "measured" =>
        /\ complexity = 1 + Cardinality(CountedNodes)
        /\ complexity >= 1
        /\ (CountedNodes = {} => complexity = 1)

\* a function whose try has a handler that holds a loop: two counted nodes
C4_Witness ==
    /\ pc = "measured"
    /\ complexity = 3
    /\ \E i, j \in 1..Len(shape) :
          /\ shape[i].kind = "ExceptHandler"
          /\ shape[j].kind = "While" /\ shape[j].parent = i

HotFunctions == {fn \in DOMAIN functions : functions[fn].complexity > 10}

InsightsOf(type) == {i \in 1..Len(insights) : insights[i].type = type}

\* C5: after a run the high-complexity warning is present iff at least one
\* recorded function has complexity > 10, and its files_affected holds exactly
\* the distinct files of those functions, each once.
C5_WarningIffHighComplexity ==
    pc = "done" =>
        /\ InsightsOf("warning") # {} <=> HotFunctions # {}
        /\ \A i \in InsightsOf("warning") :
              LET affected == insights[i].files_affected IN
              /\ Range(affected) = {functions[fn].file_path : fn \in HotFunctions}
              /\ \A j, k \in 1..Len(affected) : j # k => affected[j] # affected[k]

\* functions over the threshold in two different files, two of them in one file
C5_Witness ==
    /\ pc = "done"
    /\ Cardinality(HotFunctions) = 3
    /\ \E i \in InsightsOf("warning") : Len(insights[i].files_affected) = 2

\* the resolved decorator names of the nodes of the given kinds in the files
\* that parsed
UsedDecorators(kinds) ==
    UNION {UNION {Range(DecoratorNames(node)) :
                    node \in {n \in Range(walk(<<files[i].tree>>)) : n.kind \in kinds}} :
           i \in Parsed}

ChecksumLike(names) == {d \in names : Contains(d, s_Checksum)}

\* C6 as stated: if two decorators with distinct names that both contain
\* "Checksum" are used anywhere in the scanned files, on a function, a method
\* or a class, the run emits exactly one Recommendation insight.
C6_ChecksumUsedAnywhere ==
    pc = "done" =>
        (Cardinality(ChecksumLike(UsedDecorators({"FunctionDef", "AsyncFunctionDef", "ClassDef"}))) > 1
            => Cardinality(InsightsOf("recommendation")) = 1)

\* C6 as amended: if two decorators with distinct names that both contain
\* "Checksum" are used on def statements (functions, methods, nested
\* functions; neither classes nor async def) of the files that parsed, the run
\* emits exactly one Recommendation insight, even when each is used only once.
C6_ChecksumUsedOnFunctions ==
    pc = "done" =>
        (Cardinality(ChecksumLike(UsedDecorators({"FunctionDef"}))) > 1
            => Cardinality(InsightsOf("recommendation")) = 1)

\* ChecksumA and ChecksumB, each used once, on functions of two files
C6_Witness ==
    /\ pc = "done"
    /\ {s_ChecksumA, s_ChecksumB} \subseteq DOMAIN decorators
    /\ Len(decorators[s_ChecksumA]) = 1 /\ Len(decorators[s_ChecksumB]) = 1
    /\ Cardinality(InsightsOf("recommendation")) = 1

RuleOrder == <<"warning", "info", "recommendation">>

\* the triggering condition of each rule, on the finished model
Triggered(type) ==
    CASE type = "warning" -> \E fn \in DOMAIN functions : functions[fn].complexity > 10
      [] type = "info" -> \E d \in DOMAIN decorators : Len(decorators[d]) > 1
      [] type = "recommendation" ->
            \E d, e \in DOMAIN decorators :
                d # e /\ Contains(d, s_Checksum) /\ Contains(e, s_Checksum)

\* C7: the insights of a run hold at most one insight per rule, in rule order
\* (warning, info, recommendation), and each is there exactly when its own
\* condition holds, whatever the other rules did.
C7_InsightsInRuleOrder ==
    pc = "done" =>
        [i \in 1..Len(insights) |-> insights[i].type]
            = SelectSeq(RuleOrder, LAMBDA type : Triggered(type))

\* a run in which info and recommendation fire and warning does not
C7_Witness ==
    /\ pc = "done"
    /\ [i \in 1..Len(insights) |-> insights[i].type] = <<"info", "recommendation">>

Members(class_name) ==
    Range(classes[class_name].methods) \cup Range(classes[class_name].attributes)

\* C8: the graph build_graph returns has as nodes the class names and all
\* their recorded method and attribute names, and as edges exactly the pairs
\* class -> member of the members recorded for that class, each pair once.
C8_GraphIsClassesAndMembers ==
    pc = "done" =>
        /\ graph.nodes = DOMAIN classes \cup UNION {Members(c) : c \in DOMAIN classes}
        /\ graph.edges = UNION {{<<c, m>> : m \in Members(c)} : c \in DOMAIN classes}

\* classes A (method m recorded twice, an attribute named like class B), Inner
\* and the memberless B and Foo
C8_Witness ==
    /\ pc = "done"
    /\ {s_A, s_B, s_Inner, s_Foo} \subseteq DOMAIN classes
    /\ classes[s_A].methods = <<s_m, s_m>>
    /\ classes[s_Foo] = [methods |-> << >>, attributes |-> << >>]
    /\ <<s_A, s_B>> \in graph.edges
    /\ s_Foo \in graph.nodes

\* the def statements directly in a class body, as <<name, line>>, in body order
DirectDefs(node) ==
    LET defs == SelectSeq(node.body, LAMBDA item : item.kind = "FunctionDef")
    IN  [i \in 1..Len(defs) |-> <<defs[i].name, defs[i].lineno>>]

Recorded(methods) == [i \in 1..Len(methods) |-> <<methods[i].name, methods[i].line>>]

ClassDefsOf(tree) == {n \in Range(walk(<<tree>>)) : n.kind = "ClassDef"}

\* C10 (1): when the walk visits a class-definition node, the methods recorded
\* for it are exactly the def statements directly in its body, in body order.
MethodsAreDirectDefs ==
    (pc = "walk" /\ todo # << >> /\ Head(todo).kind = "ClassDef") =>
        /\ Head(todo).name \in DOMAIN classes'
        /\ Recorded(classes'[Head(todo).name].methods) = DirectDefs(Head(todo))
        /\ classes'[Head(todo).name].file_path = py_file

\* C10 (2): when the walk of a file is over, every such method has also an
\* entry of its own in the functions map, written during that walk.
MethodsAreAlsoFunctions ==
    (pc = "walk" /\ todo = << >>) =>
        \A node \in ClassDefsOf(content.tree) :
            \A i \in 1..Len(DirectDefs(node)) :
                /\ DirectDefs(node)[i][1] \in DOMAIN functions
                /\ functions[DirectDefs(node)[i][1]].file_path = py_file

\* C10: for every class-definition node, the recorded methods are exactly the
\* function definitions directly inside the class body, in body order (deeper
\* ones excluded), and every such method is also recorded as a standalone
\* entry of the functions map during the same traversal.
C10_MethodsDirectAndStandalone ==
    [][MethodsAreDirectDefs]_vars /\ []MethodsAreAlsoFunctions

\* class K of DecoA, whose method m holds a nested def: K has the one method m,
\* and m and inner are both in the functions map
C10_Witness ==
    /\ pc = "walk" /\ todo = << >>
    /\ content = DecoA
    /\ Recorded(classes[s_K].methods) = <<<<s_m, 8>>>>
    /\ {s_m, s_inner} \subseteq DOMAIN functions

\* the declarations of one kind that one file holds, in the order ast.walk
\* meets them, each with the path of its file
DeclarationsIn(kind, i) ==
    IF files[i].status # "ok" THEN << >>
    ELSE LET found == SelectSeq(walk(<<files[i].tree>>), LAMBDA node : node.kind = kind)
         IN  [k \in 1..Len(found) |-> [node |-> found[k], file_path |-> Paths[i]]]

\* the declarations of one kind met in the first n files, in the order met
RECURSIVE Declarations(_, _)
Declarations(kind, n) ==
    IF n = 0 THEN << >> ELSE Declarations(kind, n - 1) \o DeclarationsIn(kind, n)

DeclaredNames(met) == {met[k].node.name : k \in 1..Len(met)}

\* the one of them met last under a name
MostRecent(met, name) ==
    LET last == CHOOSE k \in 1..Len(met) :
                    /\ met[k].node.name = name
                    /\ \A j \in (k + 1)..Len(met) : met[j].node.name # name
    IN  met[last]

\* C11: last-write-wins: whenever the analyzer is between files or has finished,
\* the classes map and the functions map each hold, for every name declared in
\* the files processed so far, exactly the entry of the most recently met
\* declaration with that name (an earlier one is fully replaced), and each map
\* has as many entries as distinct names were met.
C11_LastWriteWins ==
    pc \in {"scan", "done"} =>
        LET class_defs == Declarations("ClassDef", idx)
            function_defs == Declarations("FunctionDef", idx)
        IN  /\ DOMAIN classes = DeclaredNames(class_defs)
            /\ DOMAIN functions = DeclaredNames(function_defs)
            /\ Cardinality(DOMAIN classes) = Cardinality(DeclaredNames(class_defs))
            /\ Cardinality(DOMAIN functions) = Cardinality(DeclaredNames(function_defs))
            /\ \A name \in DeclaredNames(class_defs) :
                   LET last == MostRecent(class_defs, name)
                   IN  classes[name] = ClassInfo(last.node, last.file_path)
            /\ \A name \in DeclaredNames(function_defs) :
                   LET last == MostRecent(function_defs, name)
                   IN  functions[name] = FunctionInfo(last.node, last.file_path)

\* the same for the classes map of find_classes: the entry under a name is the
\* one built from the class definition met last under it
LastWriteWinsOOP ==
    pc \in {"find", "done"} =>
        LET class_defs == Declarations("ClassDef", idx)
        IN  /\ DOMAIN classes = DeclaredNames(class_defs)
            /\ \A name \in DeclaredNames(class_defs) :
                   classes[name] = ClassEntry(MostRecent(class_defs, name).node)

\* DecoA then DecoB: class K and function g are declared in both files and the
\* second file's entries stand; in DecoB the walk meets the module-level m of
\* line 10 before the method m of line 6, and the method's entry stands
C11_Witness ==
    /\ pc = "done"
    /\ Len(files) >= 2 /\ files[1] = DecoA /\ files[2] = DecoB
    /\ classes[s_K].file_path = "b.py" /\ classes[s_K].line = 3
    /\ functions[s_g].file_path = "b.py" /\ functions[s_g].line = 8
    /\ functions[s_m].file_path = "b.py" /\ functions[s_m].line = 6
    /\ Cardinality(DOMAIN classes) = 1

\* the names of the def statements directly in a class body, in body order
DirectMethodNames(node) ==
    LET defs == SelectSeq(node.body, LAMBDA item : item.kind = "FunctionDef")
    IN  [i \in 1..Len(defs) |-> defs[i].name]

\* the simple-name targets of the assignments directly in a class body
DirectAttributeNames(node) ==
    LET assigns == SelectSeq(node.body, LAMBDA item : /\ item.kind = "Assign"
                                                      /\ item.body[1].kind = "Name")
    IN  [i \in 1..Len(assigns) |-> assigns[i].body[1].name]

\* C12: in the graph builder, the attributes recorded for a class are exactly
\* the simple-name targets of the assignments directly inside its body, and its
\* methods are only the functions directly in its body: what is assigned or
\* defined inside a method or a nested class, and tuple and attribute targets,
\* never becomes a member of the class, in the classes map or in the graph.
C12_MembersAreDirect ==
    pc \in {"find", "done"} =>
        LET class_defs == Declarations("ClassDef", idx)
            Direct(name) == MostRecent(class_defs, name).node
        IN  /\ \A name \in DOMAIN classes :
                   /\ classes[name].attributes = DirectAttributeNames(Direct(name))
                   /\ classes[name].methods = DirectMethodNames(Direct(name))
            /\ pc = "done" =>
                   \A edge \in graph.edges :
                       edge[2] \in Range(DirectAttributeNames(Direct(edge[1])))
                                   \cup Range(DirectMethodNames(Direct(edge[1])))

====
